---- MODULE Spec2Model ----
(***************************************************************************)
(* Model of src/main.py: the statement synchronisation script that runs    *)
(* the external statement downloader, then the external Pohoda importer,   *)
(* and prints one merged report.                                           *)
(*                                                                         *)
(* Python values are tagged records [t |-> type, v |-> payload].  A str is *)
(* a sequence of tokens; a token stands for a run of characters that       *)
(* contains no ":" (the token ":" is the colon itself, and the token       *)
(* "Processed " is the literal prefix the extraction pattern looks for).   *)
(***************************************************************************)
EXTENDS Integers, Sequences, FiniteSets, TLC

\* ------------------------------------------------------------------ bounds
\* longest artifacts.processed_files list the downloader's report carries
MaxEntries == 2

\* ----------------------------------------------------------- Python values
PyNone == [t |-> "None"]
Str(toks) == [t |-> "str", v |-> toks]
Num(n) == [t |-> "num", v |-> n]
List(items) == [t |-> "list", v |-> items]
Tuple(items) == [t |-> "tuple", v |-> items]
Dict(f) == [t |-> "dict", v |-> f]
EmptyMap == [k \in {} |-> PyNone]
EmptyDict == Dict(EmptyMap)

\* Python truth value testing, as used by `if not x:` / `if x:`
Truthy(x) ==
  CASE x.t = "None" -> FALSE
    [] x.t = "bool" -> x.v
    [] x.t = "num" -> x.v # 0
    [] x.t = "str" -> Len(x.v) > 0
    [] x.t = "list" -> Len(x.v) > 0
    [] x.t = "tuple" -> Len(x.v) > 0
    [] x.t = "dict" -> DOMAIN x.v # {}

\* d.get(key, default) on a dict
DictGet(d, key, default) == IF key \in DOMAIN d.v THEN d.v[key] ELSE default

\* d[key] = val on a dict
DictSet(d, key, val) ==
  Dict([k \in (DOMAIN d.v) \cup {key} |-> IF k = key THEN val ELSE d.v[k]])

\* the (None, None) every failure path of both adapters returns
FailureReturn == Tuple(<<PyNone, PyNone>>)

\* ------------------------------------------------- text and JSON documents
\* What a process wrote: either text that is no JSON document, or the text
\* of the JSON document doc.
Garbage == [json |-> FALSE]
Text(doc) == [json |-> TRUE, doc |-> doc]

\* json.loads / json.load: the parsed document, or an exception
JsonLoads(text) ==
  IF text.json THEN [exc |-> FALSE, val |-> text.doc] ELSE [exc |-> TRUE]

\* ------------------------------------- re.search(r"Processed ([^:]+):", s)
PROCESSED == "Processed "
COLON == ":"

\* position of the first ":" after position i of s, or 0
RECURSIVE FirstColonAfter(_, _)
FirstColonAfter(s, i) ==
  IF i >= Len(s) THEN 0
  ELSE IF s[i + 1] = COLON THEN i + 1 ELSE FirstColonAfter(s, i + 1)

\* the pattern matches at i: the prefix, one or more non-colons, a colon
MatchAt(s, i) == s[i] = PROCESSED /\ FirstColonAfter(s, i) > i + 1

\* leftmost match from position i on: its group 1, or no match
RECURSIVE SearchFrom(_, _)
SearchFrom(s, i) ==
  IF i > Len(s) THEN [found |-> FALSE]
  ELSE IF MatchAt(s, i)
       THEN [found |-> TRUE, group |-> SubSeq(s, i + 1, FirstColonAfter(s, i) - 1)]
       ELSE SearchFrom(s, i + 1)

ReSearch(s) == SearchFrom(s, 1)

\* what `for entry in processed` iterates over; exc when not iterable
IterItems(processed) ==
  CASE processed.t = "list" -> [exc |-> FALSE, items |-> processed.v]
    [] processed.t = "str" ->
         [exc |-> FALSE, items |-> [i \in 1..Len(processed.v) |-> Str(<<processed.v[i]>>)]]
    [] OTHER -> [exc |-> TRUE]

\* the loop of lines 81-85: exc when an entry is not a str (re.search raises)
RECURSIVE ExtractFiles(_)
ExtractFiles(entries) ==
  IF Len(entries) = 0 THEN [exc |-> FALSE, files |-> <<>>]
  ELSE IF Head(entries).t # "str" THEN [exc |-> TRUE]
  ELSE LET m == ReSearch(Head(entries).v)
           rest == ExtractFiles(Tail(entries))
       IN IF rest.exc THEN [exc |-> TRUE]
          ELSE [exc |-> FALSE,
                files |-> IF m.found THEN <<Str(m.group)>> \o rest.files
                          ELSE rest.files]

\* ------------------------------------------------ what the tools can do
\* processed_files entries the downloader's report may carry
EntrySamples ==
  << Str(<<PROCESSED, "/tmp/a.abo", COLON, " ok">>),
     Str(<<PROCESSED, "/tmp/b.abo", COLON, " ok">>),
     Str(<<"nothing to do">>),
     Str(<<PROCESSED, COLON, " no name">>),
     Str(<<"x ", PROCESSED, PROCESSED, "/tmp/a.abo", COLON, PROCESSED, "/tmp/b.abo", COLON>>),
     Num(7) >>

\* the processed_files lists: every list of at most MaxEntries sample entries
EntryLists ==
  UNION {[1..n -> 1..Len(EntrySamples)] : n \in 0..MaxEntries}

ProcessedFiles(idx) == List([i \in 1..Len(idx) |-> EntrySamples[idx[i]]])

\* standard output of the downloader, by shape; the last shape carries the
\* processed_files list chosen by idx
DlShapes == 1..9
DlText(shape, idx) ==
  CASE shape = 1 -> Garbage
    [] shape = 2 -> Text(PyNone)
    [] shape = 3 -> Text(List(<<Num(1)>>))
    [] shape = 4 -> Text(EmptyDict)
    [] shape = 5 -> Text(Dict("artifacts" :> List(<<>>)))
    [] shape = 6 -> Text(Dict("artifacts" :> EmptyDict))
    [] shape = 7 -> Text(Dict("artifacts" :> Dict("processed_files" :> PyNone)))
    [] shape = 8 -> Text(Dict("artifacts" :> Dict("processed_files" :> Str(<<PROCESSED, "/tmp/a.abo", COLON>>))))
    [] shape = 9 ->
         Text(Dict("artifacts" :> Dict("processed_files" :> ProcessedFiles(idx))))

\* content of the importer's report file after the importer exited
ImpShapes == 1..11
ImpFile(shape) ==
  CASE shape = 1 -> [present |-> FALSE]
    [] shape = 2 -> [present |-> TRUE, text |-> Garbage]
    [] shape = 3 -> [present |-> TRUE, text |-> Text(Dict("status" :> Str(<<"success">>) @@ "message" :> Str(<<"done">>)))]
    [] shape = 4 -> [present |-> TRUE, text |-> Text(Dict("status" :> Str(<<"error">>) @@ "message" :> Str(<<"refused">>)))]
    [] shape = 5 -> [present |-> TRUE, text |-> Text(Dict("status" :> Str(<<"warning">>)))]
    [] shape = 6 -> [present |-> TRUE, text |-> Text(Dict("message" :> Str(<<"done">>)))]
    [] shape = 7 -> [present |-> TRUE, text |-> Text(Dict("imported" :> Num(2)))]
    [] shape = 8 -> [present |-> TRUE, text |-> Text(EmptyDict)]
    [] shape = 9 -> [present |-> TRUE, text |-> Text(List(<<Str(<<"imported">>)>>))]
    [] shape = 10 -> [present |-> TRUE, text |-> Text(PyNone)]
    [] shape = 11 -> [present |-> TRUE, text |-> Text(Dict("status" :> Num(0) @@ "message" :> Str(<<"done">>)))]

\* how one external invocation went: the environment could not be prepared
\* (load_env_file, tempfile), the process could not be started, or it exited
OutcomeKinds == {"setup_error", "spawn_error", "exited"}
ReturnCodes == {0, 1}

DlOutcome(kind, rc, text) ==
  IF kind = "exited" THEN [kind |-> kind, returncode |-> rc, stdout |-> text]
  ELSE [kind |-> kind]

ImpOutcome(kind, rc, file) ==
  IF kind = "exited" THEN [kind |-> kind, returncode |-> rc, file |-> file]
  ELSE [kind |-> kind]

\* ----------------------------------------------------- download_statements
PHP_DOWNLOADER == "~/Projects/VitexSoftware/csas-statement-tools/src/csas-statement-downloader.php"

\* the command line of lines 62-67
DownloaderCmd(from_date, to_date, output_dir) ==
  << Str(<<"php">>), Str(<<PHP_DOWNLOADER>>), Str(<<"-d", output_dir>>),
     Str(<<"-fabo-standard">>), Str(<<"-o">>), Str(<<"php", COLON, "//stdout">>) >>

\* a result of (part of) an adapter: whether an exception is propagating,
\* the value returned, what was printed to stdout and stderr, the commands
\* handed to subprocess.run
Raise(calls, out, err) ==
  [raised |-> TRUE, ret |-> PyNone, calls |-> calls, out |-> out, err |-> err]
Return(ret, calls, out, err) ==
  [raised |-> FALSE, ret |-> ret, calls |-> calls, out |-> out, err |-> err]

\* body of the inner try, lines 76-87
ParseDownloaderBody(stdout, calls) ==
  LET r == JsonLoads(stdout) IN
  IF r.exc THEN Raise(calls, <<>>, <<>>)
  ELSE LET report == r.val IN
    IF report.t # "dict" THEN Raise(calls, <<>>, <<>>)
    ELSE LET artifacts == DictGet(report, "artifacts", EmptyDict) IN
      IF artifacts.t # "dict" THEN Raise(calls, <<>>, <<>>)
      ELSE LET processed == DictGet(artifacts, "processed_files", List(<<>>))
               it == IterItems(processed)
           IN IF it.exc THEN Raise(calls, <<>>, <<>>)
              ELSE LET x == ExtractFiles(it.items) IN
                IF x.exc THEN Raise(calls, <<>>, <<>>)
                ELSE Return(Tuple(<<List(x.files), report>>), calls,
                            <<[what |-> "Downloaded statements", val |-> List(x.files)]>>,
                            <<>>)

\* the inner try with its handler, lines 75-90
ParseDownloaderReport(stdout, calls) ==
  LET b == ParseDownloaderBody(stdout, calls) IN
  IF b.raised
  THEN Return(FailureReturn, b.calls, b.out, Append(b.err, "Error parsing downloader report"))
  ELSE b

\* body of the outer try, lines 61-90
DownloadBody(from_date, to_date, output_dir, o) ==
  LET cmd == DownloaderCmd(from_date, to_date, output_dir) IN
  IF o.kind = "setup_error" THEN Raise(<<>>, <<>>, <<>>)
  ELSE IF o.kind = "spawn_error" THEN Raise(<<cmd>>, <<>>, <<>>)
  ELSE IF o.returncode # 0
       THEN Return(FailureReturn, <<cmd>>, <<>>, <<"Error downloading statements">>)
       ELSE ParseDownloaderReport(o.stdout, <<cmd>>)

\* download_statements without the handler of lines 91-93
DownloadStatements_NoCatch(from_date, to_date, output_dir, o) ==
  DownloadBody(from_date, to_date, output_dir, o)

\* download_statements, lines 48-93
DownloadStatements(from_date, to_date, output_dir, o) ==
  LET b == DownloadBody(from_date, to_date, output_dir, o) IN
  IF b.raised
  THEN Return(FailureReturn, b.calls, b.out,
              Append(b.err, "Error running csas-statement-downloader"))
  ELSE b

\* ---------------------------------------------- import_statement_to_pohoda
PHP_IMPORTER == "~/Projects/SpojeNetIT/pohoda-abo-importer/src/importer.php"
REPORT_PATH == "/tmp/tmpXXXX.json"

\* the importer command with the statement files in reverse order
ImporterCmd_Reversed(statement_file) ==
  IF statement_file.t # "list" THEN [exc |-> TRUE]
  ELSE [exc |-> FALSE,
        cmd |-> << Str(<<"php">>), Str(<<PHP_IMPORTER>>), Str(<<"-o">>),
                   Str(<<REPORT_PATH>>) >>
                \o [i \in 1..Len(statement_file.v) |->
                      statement_file.v[Len(statement_file.v) + 1 - i]]]

\* the command line of lines 114-117; exc when statement_file is no list
ImporterCmd(statement_file) ==
  IF statement_file.t # "list" THEN [exc |-> TRUE]
  ELSE [exc |-> FALSE,
        cmd |-> << Str(<<"php">>), Str(<<PHP_IMPORTER>>), Str(<<"-o">>),
                   Str(<<REPORT_PATH>>) >> \o statement_file.v]

\* body of the inner try, lines 126-129
ParseImporterBody(file, calls) ==
  IF ~file.present THEN Raise(calls, <<>>, <<>>)
  ELSE LET r == JsonLoads(file.text) IN
    IF r.exc THEN Raise(calls, <<>>, <<>>)
    ELSE Return(Tuple(<<r.val, Str(<<REPORT_PATH>>)>>), calls,
                <<[what |-> "Import result", val |-> r.val]>>, <<>>)

\* the inner try with its handler, lines 125-132
ParseImporterReport(file, calls) ==
  LET b == ParseImporterBody(file, calls) IN
  IF b.raised
  THEN Return(FailureReturn, b.calls, b.out, Append(b.err, "Error parsing importer report"))
  ELSE b

\* body of the outer try, lines 109-132
ImportBody(statement_file, pohoda_url, pohoda_token, o) ==
  IF o.kind = "setup_error" THEN Raise(<<>>, <<>>, <<>>)
  ELSE LET c == ImporterCmd(statement_file) IN
    IF c.exc THEN Raise(<<>>, <<>>, <<>>)
    ELSE IF o.kind = "spawn_error" THEN Raise(<<c.cmd>>, <<>>, <<>>)
    ELSE IF o.returncode # 0
         THEN Return(FailureReturn, <<c.cmd>>, <<>>, <<"Error importing statement to Pohoda">>)
         ELSE ParseImporterReport(o.file, <<c.cmd>>)

\* import_statement_to_pohoda, lines 96-135
ImportStatementToPohoda(statement_file, pohoda_url, pohoda_token, o) ==
  LET b == ImportBody(statement_file, pohoda_url, pohoda_token, o) IN
  IF b.raised
  THEN Return(FailureReturn, b.calls, b.out,
              Append(b.err, "Error running pohoda-abo-importer"))
  ELSE b

\* ------------------------------------------------------------------- main
Dates == {"2025-09-01", "2025-09-15"}
OutputDirs == {"statements", "/tmp/out"}
POHODA_URL == "https://pohoda.example"
POHODA_TOKEN == "token"

VARIABLES
  pc,                 \* where main() is
  from_date, to_date, output_dir,   \* the parsed arguments
  statement_files, downloader_report,        \* line 154
  importer_report, importer_report_path,     \* line 168
  report,             \* the sync report being built
  stdout, stderr,     \* what the process wrote so far
  exit_code,          \* the exit status once pc = "exited", -1 before
  dl, imp,            \* what each adapter call did (its outcome and result)
  commands            \* every command handed to subprocess.run, in order

vars == << pc, from_date, to_date, output_dir, statement_files, downloader_report,
           importer_report, importer_report_path, report, stdout, stderr,
           exit_code, dl, imp, commands >>

NotCalled == [called |-> FALSE]

\* an uncaught exception ends the interpreter: traceback on stderr, status 1
Crash ==
  /\ pc' = "exited"
  /\ exit_code' = 1
  /\ stderr' = Append(stderr, "Traceback")

Init ==
  /\ pc = "makedirs"
  /\ from_date \in Dates
  /\ to_date \in Dates
  /\ output_dir \in OutputDirs
  /\ statement_files = PyNone
  /\ downloader_report = PyNone
  /\ importer_report = PyNone
  /\ importer_report_path = PyNone
  /\ report = PyNone
  /\ stdout = <<>>
  /\ stderr = <<>>
  /\ exit_code = -1
  /\ dl = NotCalled
  /\ imp = NotCalled
  /\ commands = <<>>

\* line 153: os.makedirs(args.output_dir, exist_ok=True), which may raise
Makedirs ==
  /\ pc = "makedirs"
  /\ \E ok \in BOOLEAN :
       IF ok
       THEN pc' = "download" /\ UNCHANGED << exit_code, stderr >>
       ELSE Crash
  /\ UNCHANGED << from_date, to_date, output_dir, statement_files, downloader_report,
                  importer_report, importer_report_path, report, stdout, dl, imp,
                  commands >>

\* line 154: statement_files, downloader_report = download_statements(...)
CallDownload ==
  /\ pc = "download"
  /\ \E kind \in OutcomeKinds, rc \in ReturnCodes, shape \in DlShapes, idx \in EntryLists :
       LET o == DlOutcome(kind, rc, DlText(shape, idx))
           r == DownloadStatements(from_date, to_date, output_dir, o)
       IN /\ dl' = [called |-> TRUE, outcome |-> o, raised |-> r.raised, ret |-> r.ret]
          /\ commands' = commands \o r.calls
          /\ stdout' = stdout \o r.out
          /\ IF r.raised
             THEN /\ stderr' = Append(stderr \o r.err, "Traceback")
                  /\ pc' = "exited"
                  /\ exit_code' = 1
                  /\ UNCHANGED << statement_files, downloader_report >>
             ELSE /\ stderr' = stderr \o r.err
                  /\ pc' = "build_report"
                  /\ statement_files' = r.ret.v[1]
                  /\ downloader_report' = r.ret.v[2]
                  /\ UNCHANGED exit_code
  /\ UNCHANGED << from_date, to_date, output_dir, importer_report,
                  importer_report_path, report, imp >>

\* lines 155-159
BuildReport ==
  /\ pc = "build_report"
  /\ report' = Dict("timestamp" :> Str(<<"now">>) @@ "artifacts" :> EmptyDict
                    @@ "metrics" :> EmptyDict)
  /\ pc' = "check_files"
  /\ UNCHANGED << from_date, to_date, output_dir, statement_files, downloader_report,
                  importer_report, importer_report_path, stdout, stderr, exit_code,
                  dl, imp, commands >>

\* the report of a failure branch, lines 161-164 and 170-173
FailureReport(rep, message, dl_report) ==
  LET r1 == DictSet(rep, "status", Str(<<"error">>))
      r2 == DictSet(r1, "message", Str(<<message>>))
  IN IF Truthy(dl_report) THEN DictSet(r2, "downloader_report", dl_report) ELSE r2

\* print(json.dumps(report, indent=2))
PrintReport(out, rep) == Append(out, [what |-> "report", val |-> rep])

\* lines 160-166
DownloadFailed ==
  /\ pc = "check_files"
  /\ ~Truthy(statement_files)
  /\ report' = FailureReport(report, "Failed to download statement(s).", downloader_report)
  /\ stdout' = PrintReport(stdout, report')
  /\ exit_code' = 1
  /\ pc' = "exited"
  /\ UNCHANGED << from_date, to_date, output_dir, statement_files, downloader_report,
                  importer_report, importer_report_path, stderr, dl, imp, commands >>

\* lines 167-168
CallImport ==
  /\ pc = "check_files"
  /\ Truthy(statement_files)
  /\ \E kind \in OutcomeKinds, rc \in ReturnCodes, shape \in ImpShapes :
       LET o == ImpOutcome(kind, rc, ImpFile(shape))
           r == ImportStatementToPohoda(statement_files, POHODA_URL, POHODA_TOKEN, o)
       IN /\ report' = DictSet(report, "artifacts",
                               DictSet(report.v["artifacts"], "imported_statement",
                                       statement_files))
          /\ imp' = [called |-> TRUE, outcome |-> o, raised |-> r.raised, ret |-> r.ret,
                     statement_file |-> statement_files]
          /\ commands' = commands \o r.calls
          /\ stdout' = stdout \o r.out
          /\ IF r.raised
             THEN /\ stderr' = Append(stderr \o r.err, "Traceback")
                  /\ pc' = "exited"
                  /\ exit_code' = 1
                  /\ UNCHANGED << importer_report, importer_report_path >>
             ELSE /\ stderr' = stderr \o r.err
                  /\ pc' = "check_import"
                  /\ importer_report' = r.ret.v[1]
                  /\ importer_report_path' = r.ret.v[2]
                  /\ UNCHANGED exit_code
  /\ UNCHANGED << from_date, to_date, output_dir, statement_files, downloader_report,
                  dl >>

\* lines 169-175
ImportFailed ==
  /\ pc = "check_import"
  /\ ~Truthy(importer_report)
  /\ report' = FailureReport(report, "Failed to import statement(s) to Pohoda.",
                             downloader_report)
  /\ stdout' = PrintReport(stdout, report')
  /\ exit_code' = 2
  /\ pc' = "exited"
  /\ UNCHANGED << from_date, to_date, output_dir, statement_files, downloader_report,
                  importer_report, importer_report_path, stderr, dl, imp, commands >>

\* the merged report of lines 177-181
MergedReport(rep, imp_report, dl_report) ==
  LET r1 == DictSet(rep, "status", DictGet(imp_report, "status", Str(<<"success">>)))
      r2 == DictSet(r1, "message",
                    DictGet(imp_report, "message",
                            Str(<<"Statement(s) successfully imported to Pohoda.">>)))
      a1 == DictSet(r2.v["artifacts"], "importer_report", imp_report)
      a2 == IF Truthy(dl_report) THEN DictSet(a1, "downloader_report", dl_report) ELSE a1
  IN DictSet(r2, "artifacts", a2)

\* lines 176-182; importer_report.get raises when the report is no dict
MergeReports ==
  /\ pc = "check_import"
  /\ Truthy(importer_report)
  /\ IF importer_report.t # "dict"
     THEN /\ Crash
          /\ UNCHANGED << report, stdout >>
     ELSE /\ report' = MergedReport(report, importer_report, downloader_report)
          /\ stdout' = PrintReport(stdout, report')
          /\ exit_code' = 0
          /\ pc' = "exited"
          /\ UNCHANGED stderr
  /\ UNCHANGED << from_date, to_date, output_dir, statement_files, downloader_report,
                  importer_report, importer_report_path, dl, imp, commands >>

Next ==
  \/ Makedirs
  \/ CallDownload
  \/ BuildReport
  \/ DownloadFailed
  \/ CallImport
  \/ ImportFailed
  \/ MergeReports

Spec == Init /\ [][Next]_vars

\* ================================================================ claims
\* ---------------------------------------------------------------- helpers
IsFailureReturn(x) ==
  x.t = "tuple" /\ Len(x.v) = 2 /\ x.v[1].t = "None" /\ x.v[2].t = "None"

\* the external tool failed: not started, non-zero exit, or no JSON report
DlToolFailed(o) ==
  o.kind # "exited" \/ o.returncode # 0 \/ ~o.stdout.json
ImpToolFailed(o) ==
  o.kind # "exited" \/ o.returncode # 0 \/ ~o.file.present \/ ~o.file.text.json

IsDownloaderCmd(c) == c[2].v = <<PHP_DOWNLOADER>>
IsImporterCmd(c) == c[2].v = <<PHP_IMPORTER>>
NumDownloaderRuns == Cardinality({i \in 1..Len(commands) : IsDownloaderCmd(commands[i])})
NumImporterRuns == Cardinality({i \in 1..Len(commands) : IsImporterCmd(commands[i])})

\* the run printed its sync report
ReportEmitted == \E i \in 1..Len(stdout) : stdout[i].what = "report"

\* the downloader adapter handed main a usable (non-empty) file list
GotFiles == dl.called /\ ~dl.raised /\ Truthy(dl.ret.v[1])
\* the importer adapter handed main a usable report
GotImporterReport == imp.called /\ ~imp.raised /\ Truthy(imp.ret.v[1])

StrIs(x, s) == x.t = "str" /\ x.v = <<s>>

\* --------------------------------------------------------------------- C1
\* C1: every run ends with exit code 0, 1 or 2; 1 exactly when the downloader
\* adapter returned no file list, 2 exactly when it returned one but the
\* importer adapter returned no report, 0 exactly when both succeeded.
C1_ExitCodeByOutcome ==
  pc = "exited" =>
    /\ exit_code \in {0, 1, 2}
    /\ (exit_code = 1) <=> ~GotFiles
    /\ (exit_code = 2) <=> (GotFiles /\ ~GotImporterReport)
    /\ (exit_code = 0) <=> (GotFiles /\ GotImporterReport)

\* --------------------------------------------------------------------- C2
\* C2: in every branch of main() after the download call, whatever the tools
\* produced, the sync report has been written to standard output when the
\* process ends.
C2_ReportAlwaysEmitted ==
  (pc = "exited" /\ dl.called) => ReportEmitted

\* --------------------------------------------------------------------- C3
\* C3: the only thing ever written to standard output is the single final
\* sync report.
C3_StdoutOnlyReport ==
  /\ Len(stdout) <= 1
  /\ \A i \in 1..Len(stdout) : stdout[i].what = "report"

\* --------------------------------------------------------------------- C4
\* C4: whenever the downloader adapter returned a parsed report, every
\* emitted sync report carries it under artifacts.downloader_report.
C4_DownloaderReportInArtifacts ==
  (pc = "exited" /\ ReportEmitted /\ Truthy(dl.ret.v[2])) =>
    LET artifacts == report.v["artifacts"] IN
    /\ "downloader_report" \in DOMAIN artifacts.v
    /\ artifacts.v["downloader_report"] = dl.ret.v[2]

\* --------------------------------------------------------------------- C5
\* C5: when both adapters succeed the run exits 0 and the report has the
\* importer's status and message (else the defaults), the downloaded file
\* list under artifacts.imported_statement and the importer's report under
\* artifacts.importer_report; a download-failure report has no
\* importer_report key.
C5_SuccessReport ==
  /\ (pc = "exited" /\ GotFiles /\ GotImporterReport) =>
       /\ exit_code = 0
       /\ ReportEmitted
       /\ LET ir == imp.ret.v[1]
              artifacts == report.v["artifacts"]
          IN /\ report.v["status"] =
                  (IF "status" \in DOMAIN ir.v THEN ir.v["status"] ELSE Str(<<"success">>))
             /\ report.v["message"] =
                  (IF "message" \in DOMAIN ir.v THEN ir.v["message"]
                   ELSE Str(<<"Statement(s) successfully imported to Pohoda.">>))
             /\ artifacts.v["imported_statement"] = dl.ret.v[1]
             /\ artifacts.v["importer_report"] = ir
  /\ (pc = "exited" /\ ReportEmitted /\ ~GotFiles) =>
       /\ "importer_report" \notin DOMAIN report.v
       /\ "importer_report" \notin DOMAIN report.v["artifacts"].v

\* --------------------------------------------------------------------- C6
\* C6: the status of every emitted sync report is "success" or "error".
C6_StatusSuccessOrError ==
  (pc = "exited" /\ ReportEmitted) =>
    \/ StrIs(report.v["status"], "success")
    \/ StrIs(report.v["status"], "error")

\* --------------------------------------------------------------------- C7
\* C7: the downloader command depends on the date range: a call that differs
\* from the one made only in from_date/to_date issues a different command.
C7_CommandDependsOnDates ==
  (dl.called /\ Len(commands) >= 1) =>
    \A f2 \in Dates, t2 \in Dates :
      (<<f2, t2>> # <<from_date, to_date>>) =>
        DownloaderCmd(f2, t2, output_dir) # commands[1]

\* --------------------------------------------------------------------- C8
\* C8: neither adapter raises past its boundary; when the tool cannot be
\* started, exits non-zero (whatever it printed), leaves no or malformed
\* JSON, or anything unexpected goes wrong (environment setup, a report that
\* is no JSON object), the adapter returns the failure signal with no
\* report; any other return is the pair parsed from the tool's report.
C8_AdaptersNeverRaise ==
  /\ dl.called =>
       /\ ~dl.raised
       /\ DlToolFailed(dl.outcome) => IsFailureReturn(dl.ret)
       /\ (~DlToolFailed(dl.outcome) /\ dl.outcome.stdout.doc.t # "dict")
            => IsFailureReturn(dl.ret)
       /\ ~IsFailureReturn(dl.ret) =>
            /\ dl.ret.t = "tuple" /\ Len(dl.ret.v) = 2
            /\ dl.ret.v[1].t = "list"
            /\ dl.ret.v[2] = dl.outcome.stdout.doc
  /\ imp.called =>
       /\ ~imp.raised
       /\ ImpToolFailed(imp.outcome) => IsFailureReturn(imp.ret)
       /\ ~IsFailureReturn(imp.ret) =>
            /\ imp.ret.t = "tuple" /\ Len(imp.ret.v) = 2
            /\ imp.ret.v[1] = imp.outcome.file.text.doc

\* the downloader succeeded, then the importer exited non-zero although its
\* report file held a JSON document, and the adapter returned the failure
\* signal
C8_Witness ==
  /\ dl.called /\ ~DlToolFailed(dl.outcome) /\ ~IsFailureReturn(dl.ret)
  /\ imp.called
  /\ imp.outcome.kind = "exited"
  /\ imp.outcome.returncode # 0
  /\ imp.outcome.file.present
  /\ imp.outcome.file.text.json
  /\ IsFailureReturn(imp.ret)

\* --------------------------------------------------------------------- C9
\* C9: a failed download makes download_statements return None, and a failed
\* import makes import_statement_to_pohoda return a falsy value.
C9_FailureIsFalsy ==
  /\ (dl.called /\ DlToolFailed(dl.outcome)) => dl.ret.t = "None"
  /\ (imp.called /\ ImpToolFailed(imp.outcome)) => ~Truthy(imp.ret)

\* -------------------------------------------------------------------- C10
\* C10 as stated: in every run that reaches the download call the external
\* downloader is invoked exactly once and the importer at most once; the
\* importer runs only after the downloader adapter returned a non-empty
\* list and receives exactly that list; after a failed download it never
\* runs.
C10_ExactlyOnce ==
  (pc = "exited" /\ dl.called) =>
    /\ NumDownloaderRuns = 1
    /\ NumImporterRuns <= 1
    /\ NumImporterRuns = 1 =>
         (GotFiles /\ SubSeq(commands[Len(commands)], 5, Len(commands[Len(commands)]))
                        = dl.ret.v[1].v)
    /\ ~GotFiles => NumImporterRuns = 0

\* C10 as amended: the downloader is invoked at most once (not at all when
\* setting up its environment raises, exactly once otherwise) and the
\* importer at most once, never again; the importer's command is issued
\* after the downloader's, only when the downloader adapter returned a
\* non-empty list, with exactly that list, in order, as its trailing
\* arguments; when the download yields no usable list the importer is never
\* invoked.
C10_AtMostOnce ==
  /\ NumDownloaderRuns <= 1
  /\ NumImporterRuns <= 1
  /\ Len(commands) = NumDownloaderRuns + NumImporterRuns
  /\ dl.called => (NumDownloaderRuns = (IF dl.outcome.kind = "setup_error" THEN 0 ELSE 1))
  /\ ~dl.called => Len(commands) = 0
  /\ NumImporterRuns = 1 =>
       /\ GotFiles
       /\ dl.ret.v[1].t = "list"
       /\ Len(commands) = 2
       /\ IsDownloaderCmd(commands[1])
       /\ IsImporterCmd(commands[2])
       /\ SubSeq(commands[2], 5, Len(commands[2])) = dl.ret.v[1].v
  /\ (dl.called /\ ~GotFiles) => (NumImporterRuns = 0 /\ ~imp.called)

\* the importer ran on a downloaded list of two different files
C10_Witness ==
  /\ pc = "exited"
  /\ NumDownloaderRuns = 1
  /\ NumImporterRuns = 1
  /\ Len(dl.ret.v[1].v) = 2
  /\ dl.ret.v[1].v[1] # dl.ret.v[1].v[2]

====
